---- MODULE Spec2Model ----
(***************************************************************************)
(* A model of the sandboxed command terminal (main.py), of the plan        *)
(* executor (executer.py) and of the callers that feed them (app.py).      *)
(*                                                                         *)
(* Strings are sequences of one-character strings, so that joining plan    *)
(* tokens into a line, tokenizing the line with shlex and parsing a path   *)
(* are computed as the code computes them.  A path is the sequence of its  *)
(* components below the filesystem root "/"; <<>> is "/" itself.           *)
(***************************************************************************)
EXTENDS Integers, Sequences, FiniteSets, TLC

VARIABLES
    fs,        \* the file tree: a function from the paths that exist to their nodes
    cwd,       \* Terminal.cwd
    pc,        \* where control is: "idle", in execute ("called", "done"), in
               \* _resolve_path ("resolved"), in run_commands ("loop", "returned")
    line,      \* the line given to Terminal.execute
    out,       \* what that call of execute printed, print by print
    raised,    \* how that call ended: "none", "SystemExit" or "ValueError"
    calls,     \* the handler call it made: <<[cmd, args]>>, or <<>> when none
    res,       \* the last call of _resolve_path: its argument, cwd and result
    plan,      \* run_commands: the plan being run
    dry,       \* run_commands: its dry_run argument
    idx,       \* run_commands: the index of the next plan command
    buf,       \* run_commands: the StringIO buffer, print by print
    ran,       \* run_commands: the plan commands given to term.execute so far
    ret,       \* run_commands: the returned pair (plan_text, output)
    session,   \* Terminal.run: "running", or how the process ended: "exit 0", "exit 1"
    hist,      \* Terminal.run: the lines given to append_history, in order
    planner    \* nl_to_commands: its arguments nl and allowed, the configured
               \* allow-list, and what it gave back (commands, or the exception)

vars == <<fs, cwd, pc, line, out, raised, calls, res, plan, dry, idx, buf, ran, ret,
          session, hist, planner>>

----------------------------------------------------------------------------
(* Bounds of the model *)

\* At most this many files and directories exist below Root at any time;
\* paths reach at most this many components below Root.
MaxNodes == 3

\* The longest plan handed to run_commands.
MaxPlanLen == 2

\* The most segments of a raw path string handed to _resolve_path.
MaxSegs == 4

\* The most lines one session of the REPL appends to the history.
MaxHist == 3

\* The most lines of the text file the root starts with.
MaxLines == 12

\* The most entries of the "commands" list in a reply of the model.
MaxReply == 2

----------------------------------------------------------------------------
(* Strings *)

\* Names of files and directories: one character each.
Names == {"a", "h"}

SP == " "
SQ == "'"
SLASH == "/"
DOT == "."

RECURSIVE JoinWith(_, _)
\* sep.join(toks)
JoinWith(sep, toks) ==
    IF toks = <<>> THEN <<>>
    ELSE IF Len(toks) = 1 THEN toks[1]
    ELSE toks[1] \o sep \o JoinWith(sep, Tail(toks))

\* " ".join(map(str, cmd))
JoinSpace(toks) == JoinWith(<<SP>>, toks)

\* not line.strip(): the line holds nothing but white space
IsBlank(s) == \A i \in 1..Len(s) : s[i] = SP

----------------------------------------------------------------------------
(* shlex.split(line), POSIX mode, whitespace_split, no comment characters.  *)
(* st is the lexer state: "s" between tokens, "a" inside a word, "q" inside *)
(* single quotes.  A closing quote returns to "a", so that '' is a token.   *)

RECURSIVE ShlexScan(_, _, _, _, _)
ShlexScan(s, i, st, tok, acc) ==
    IF i > Len(s)
    THEN IF st = "q" THEN [ok |-> FALSE, parts |-> <<>>]   \* No closing quotation
         ELSE IF st = "a" THEN [ok |-> TRUE, parts |-> Append(acc, tok)]
         ELSE [ok |-> TRUE, parts |-> acc]
    ELSE LET c == s[i] IN
         IF st = "s"
         THEN IF c = SP THEN ShlexScan(s, i + 1, "s", <<>>, acc)
              ELSE IF c = SQ THEN ShlexScan(s, i + 1, "q", <<>>, acc)
              ELSE ShlexScan(s, i + 1, "a", <<c>>, acc)
         ELSE IF st = "a"
         THEN IF c = SP THEN ShlexScan(s, i + 1, "s", <<>>, Append(acc, tok))
              ELSE IF c = SQ THEN ShlexScan(s, i + 1, "q", tok, acc)
              ELSE ShlexScan(s, i + 1, "a", Append(tok, c), acc)
         ELSE \* st = "q"
              IF c = SQ THEN ShlexScan(s, i + 1, "a", tok, acc)
              ELSE ShlexScan(s, i + 1, "q", Append(tok, c), acc)

shlex_split(s) == ShlexScan(s, 1, "s", <<>>, <<>>)

----------------------------------------------------------------------------
(* pathlib: Path(path_str), resolve(), relative_to(), name, parent *)

RECURSIVE SplitSlash(_, _, _)
\* path_str.split("/"): cur is the component being read
SplitSlash(s, cur, acc) ==
    IF s = <<>> THEN Append(acc, cur)
    ELSE IF Head(s) = SLASH THEN SplitSlash(Tail(s), <<>>, Append(acc, cur))
    ELSE SplitSlash(Tail(s), Append(cur, Head(s)), acc)

\* Path(path_str).is_absolute()
is_absolute(s) == s # <<>> /\ s[1] = SLASH

\* The components of Path(path_str): empty and "." components are dropped
\* by the Path constructor, ".." components are kept.
PathParts(s) ==
    SelectSeq(SplitSlash(s, <<>>, <<>>), LAMBDA c : c # <<>> /\ c # <<DOT>>)

\* A component as a name of the model: a one-character name is itself, ".."
\* is "..", and any longer component is a name outside the model ("?").
CompName(c) ==
    IF c = <<DOT, DOT>> THEN ".."
    ELSE IF Len(c) = 1 THEN c[1]
    ELSE "?"

RECURSIVE Normalize(_, _)
\* resolve(): ".." collapsed against the components before it; ".." at "/"
\* stays at "/".  The file tree holds no symbolic link.
Normalize(base, parts) ==
    IF parts = <<>> THEN base
    ELSE LET n == CompName(Head(parts)) IN
         IF n = ".."
         THEN Normalize(IF base = <<>> THEN <<>> ELSE SubSeq(base, 1, Len(base) - 1),
                        Tail(parts))
         ELSE Normalize(Append(base, n), Tail(parts))

\* p.relative_to(root) succeeds: p is root or below it
IsUnder(p, root) == Len(p) >= Len(root) /\ SubSeq(p, 1, Len(root)) = root

\* p.name: the last component, "" for "/"
PathName(p) == IF p = <<>> THEN <<>> ELSE <<p[Len(p)]>>

\* p.parent: "/" is its own parent
Parent(p) == IF p = <<>> THEN <<>> ELSE SubSeq(p, 1, Len(p) - 1)

----------------------------------------------------------------------------
(* The sandbox root and the file tree *)

\* Terminal.root: root.resolve() of the directory the terminal is given,
\* here /h
Root == <<"h">>

\* The file tree is a function from the paths that exist to their nodes: a
\* directory, or a file and its text, line by line.
Dir == [k |-> "dir", c |-> <<>>]
File(text) == [k |-> "file", c |-> text]

Kind(f, p) == IF p \in DOMAIN f THEN f[p].k ELSE "none"

exists(f, p) == Kind(f, p) # "none"
is_dir(f, p) == Kind(f, p) = "dir"
is_file(f, p) == Kind(f, p) = "file"

\* p and every path below it
Subtree(f, p) == {q \in DOMAIN f : IsUnder(q, p)}

\* "/" and every ancestor of p, and p itself
Prefixes(p) == {SubSeq(p, 1, k) : k \in 0..Len(p)}

\* the tree f with the paths of the set gone
Without(f, gone) == [q \in DOMAIN f \ gone |-> f[q]]

\* the tree f with the paths of the set put at node n
With(f, put, n) == [q \in DOMAIN f \cup put |-> IF q \in put THEN n ELSE f[q]]

\* The names in sorted order
NameOrder == <<"a", "h">>

\* The orders in which the file system may list the names of a directory
ScanOrders == {<<"a", "h">>, <<"h", "a">>}

\* os.scandir(p), Path.iterdir(): the entries of directory p, in the order
\* the file system lists them
Scan(f, p, order) ==
    SelectSeq([i \in 1..Len(order) |-> Append(p, order[i])],
              LAMBDA q : q \in DOMAIN f)

\* sorted(path.iterdir(), key=name): the entries of directory p by name
Entries(f, p) == Scan(f, p, NameOrder)

\* The tree outside Root when the terminal is constructed: /a is a directory
\* holding the file /a/a, a file of one line.
Outside0 == (<<>> :> Dir) @@ (<<"a">> :> Dir) @@ (<<"a", "a">> :> File(<<"x">>))

\* _ensure_root_exists: Root is a directory, here an empty one
Tree0 == Outside0 @@ (Root :> Dir)

\* What the model's bounds admit: names of the model only, at most MaxNodes
\* paths below Root, no path longer than Root plus MaxNodes components.
InBounds(f) ==
    /\ \A q \in DOMAIN f : Len(q) <= Len(Root) + MaxNodes
                           /\ \A i \in 1..Len(q) : q[i] \in Names
    /\ Cardinality({q \in DOMAIN f : IsUnder(q, Root) /\ q # Root}) <= MaxNodes

----------------------------------------------------------------------------
(* Terminal._resolve_path *)

\* p.relative_to(self.root): raises ValueError when p is not under root
relative_to(p, root) ==
    IF IsUnder(p, root)
    THEN [raised |-> FALSE, rel |-> SubSeq(p, Len(root) + 1, Len(p))]
    ELSE [raised |-> TRUE, rel |-> <<>>]

\* A faulty re-rooting, which sends every escaping path to Root itself
Reroot_root(p) == Root

\* A faulty re-rooting, which leaves an escaping path where it is
Reroot_identity(p) == p

\* (self.root / p.name).resolve(): the name of "/" is empty and adds no
\* component
Reroot(p) == Normalize(Root, PathParts(PathName(p)))

\* A faulty _resolve_path without its except clause: the ValueError of
\* relative_to leaves the call
resolve_path_unclamped(c, path_str) ==
    IF path_str = <<>> THEN [path |-> c, raised |-> FALSE]
    ELSE LET p == Normalize(IF is_absolute(path_str) THEN <<>> ELSE c,
                            PathParts(path_str))
         IN [path |-> p, raised |-> relative_to(p, Root).raised]

\* A faulty _resolve_path that takes the empty string to Root instead of cwd
resolve_path_empty_root(c, path_str) ==
    IF path_str = <<>> THEN [path |-> Root, raised |-> FALSE]
    ELSE LET p == Normalize(IF is_absolute(path_str) THEN <<>> ELSE c,
                            PathParts(path_str))
         IN IF relative_to(p, Root).raised
            THEN [path |-> Reroot(p), raised |-> FALSE]
            ELSE [path |-> p, raised |-> FALSE]

\* The returned path, and whether the call raised instead of returning.
resolve_path(c, path_str) ==
    IF path_str = <<>> THEN [path |-> c, raised |-> FALSE]
    ELSE LET p == Normalize(IF is_absolute(path_str) THEN <<>> ELSE c,
                            PathParts(path_str))
         IN IF relative_to(p, Root).raised
            THEN [path |-> Reroot(p), raised |-> FALSE]   \* except ValueError
            ELSE [path |-> p, raised |-> FALSE]

----------------------------------------------------------------------------
(* Printed output.  A chunk is one print call: its kind k ("err" for a line *)
(* prefixed "error: ", "out" for a handler's normal output, "prompt" for    *)
(* the prompt of input(), "echo" and "exit" for the lines run_commands      *)
(* prints), the fixed part m of its text and the variable part s.           *)

Chunk(k, m, s) == [k |-> k, m |-> m, s |-> s]

\* Terminal._print_err(msg): print(f"error: {msg}")
print_err(m, s) == Chunk("err", m, s)

\* str(path)
PathStr(p) == IF p = <<>> THEN <<SLASH>>
              ELSE <<SLASH>> \o JoinWith(<<SLASH>>, [i \in 1..Len(p) |-> <<p[i]>>])

\* Terminal._confirm(prompt): input() answered "y", anything else, or at
\* end of file; an exhausted input stream is at end of file.
confirm(answers) == answers # <<>> /\ Head(answers) = "y"

\* What a handler hands back: the tree, cwd, what it printed, and the
\* exception that left it ("none" when it returned).
Done(f, c, o) == [fs |-> f, cwd |-> c, out |-> o, exc |-> "none"]
Fault(f, c, o, e) == [fs |-> f, cwd |-> c, out |-> o, exc |-> e]

----------------------------------------------------------------------------
(* pathlib and shutil calls on the tree.  Each gives the tree after the     *)
(* call and the exception it raised, "none" when it returned.               *)

\* a mkdir that takes an existing path as an error (exist_ok=False)
mkdir_p_once(f, p) ==
    IF exists(f, p)
    THEN [fs |-> f, exc |-> "FileExistsError"]
    ELSE IF \E q \in Prefixes(p) : is_file(f, q)
    THEN [fs |-> f, exc |-> "NotADirectoryError"]
    ELSE [fs |-> With(f, {q \in Prefixes(p) : ~exists(f, q)}, Dir), exc |-> "none"]

\* Path(p).mkdir(parents=True, exist_ok=True)
mkdir_p(f, p) ==
    IF \E q \in Prefixes(p) : is_file(f, q)
    THEN [fs |-> f, exc |-> IF is_file(f, p) THEN "FileExistsError"
                            ELSE "NotADirectoryError"]
    ELSE [fs |-> With(f, {q \in Prefixes(p) : ~exists(f, q)}, Dir), exc |-> "none"]

\* shutil.rmtree(p)
rmtree(f, p) == Without(f, Subtree(f, p))

\* the path q of the tree under src, seen under dst
Rebase(q, src, dst) == dst \o SubSeq(q, Len(src) + 1, Len(q))

\* shutil.copy2(src, dst) of a file: a dst that is a directory takes the file
\* under its own name; the text of src replaces what dst held
copy2(f, src, dst) ==
    LET d == IF is_dir(f, dst) THEN dst \o PathName(src) ELSE dst IN
    IF d = src THEN [fs |-> f, exc |-> "SameFileError"]
    ELSE IF is_dir(f, d) THEN [fs |-> f, exc |-> "IsADirectoryError"]
    ELSE IF ~is_dir(f, Parent(d)) THEN [fs |-> f, exc |-> "FileNotFoundError"]
    ELSE [fs |-> With(f, {d}, f[src]), exc |-> "none"]

RECURSIVE copytree(_, _, _, _)
RECURSIVE CopyEntries(_, _, _, _, _)
\* shutil.copytree(src, dst, dirs_exist_ok=True): the entries are listed, dst
\* is made with its parents, and every entry is copied; what fails is
\* collected and raised as one Error at the end.  The entries come in the
\* order the file system lists them, which shows when dst lies inside src.
\* A copy that would descend below the depth of the model is cut there,
\* leaving a tree out of bounds.
copytree(f, src, dst, order) ==
    IF Len(dst) > Len(Root) + MaxNodes
    THEN [fs |-> With(f, {dst}, Dir), exc |-> "none"]
    ELSE LET entries == Scan(f, src, order)
             mk == mkdir_p(f, dst)
         IN IF mk.exc # "none" THEN [fs |-> f, exc |-> mk.exc]
            ELSE CopyEntries(mk.fs, entries, dst, FALSE, order)

CopyEntries(f, entries, dst, failed, order) ==
    IF entries = <<>>
    THEN [fs |-> f, exc |-> IF failed THEN "Error" ELSE "none"]
    ELSE LET e == Head(entries)
             d == dst \o PathName(e)
             r == IF is_dir(f, e) THEN copytree(f, e, d, order) ELSE copy2(f, e, d)
         IN CopyEntries(r.fs, Tail(entries), dst, failed \/ r.exc # "none", order)

\* os.rename(src, dst), and what shutil.move falls back to when it fails
rename(f, src, dst) ==
    IF src = dst THEN [fs |-> f, exc |-> "none"]
    ELSE IF is_dir(f, src)
    THEN IF IsUnder(dst, src) THEN [fs |-> f, exc |-> "Error"]      \* into itself
         ELSE IF exists(f, dst) THEN [fs |-> f, exc |-> "FileExistsError"]
         ELSE LET moved == Subtree(f, src) IN
              [fs |-> [q \in (DOMAIN f \ moved) \cup {Rebase(m, src, dst) : m \in moved}
                         |-> IF IsUnder(q, dst) THEN f[Rebase(q, dst, src)] ELSE f[q]],
               exc |-> "none"]
    ELSE IF is_dir(f, dst) THEN [fs |-> f, exc |-> "IsADirectoryError"]
    ELSE [fs |-> With(Without(f, {src}), {dst}, f[src]), exc |-> "none"]

\* shutil.move(str(src), str(dst))
move(f, src, dst) ==
    IF is_dir(f, dst)
    THEN IF src = dst THEN [fs |-> f, exc |-> "none"]             \* _samefile
         ELSE LET real_dst == dst \o PathName(src) IN
              IF exists(f, real_dst) THEN [fs |-> f, exc |-> "Error"]
              ELSE rename(f, src, real_dst)
    ELSE rename(f, src, dst)

----------------------------------------------------------------------------
(* The command registry: the keys of Terminal.commands *)

W_help == <<"h", "e", "l", "p">>
W_pwd == <<"p", "w", "d">>
W_ls == <<"l", "s">>
W_cd == <<"c", "d">>
W_mkdir == <<"m", "k", "d", "i", "r">>
W_rm == <<"r", "m">>
W_touch == <<"t", "o", "u", "c", "h">>
W_cat == <<"c", "a", "t">>
W_echo == <<"e", "c", "h", "o">>
W_cp == <<"c", "p">>
W_mv == <<"m", "v">>
W_head == <<"h", "e", "a", "d">>
W_tail == <<"t", "a", "i", "l">>
W_ps == <<"p", "s">>
W_sysmon == <<"s", "y", "s", "m", "o", "n">>
W_df == <<"d", "f">>
W_history == <<"h", "i", "s", "t", "o", "r", "y">>
W_exit == <<"e", "x", "i", "t">>
W_quit == <<"q", "u", "i", "t">>

commands == {W_help, W_pwd, W_ls, W_cd, W_mkdir, W_rm, W_touch, W_cat, W_echo,
             W_cp, W_mv, W_head, W_tail, W_ps, W_sysmon, W_df, W_history,
             W_exit, W_quit}

F_r == <<"-", "r">>
F_a == <<"-", "a">>
F_n == <<"-", "n">>

----------------------------------------------------------------------------
(* The handlers.  f is the tree and c the cwd when the handler is called.   *)
(* env is what the call meets outside the terminal: env.answers, what the   *)
(* user answers to its prompts, and env.order, the order in which the file  *)
(* system lists a directory.                                                *)

Env(answers, order) == [answers |-> answers, order |-> order]

\* the path _resolve_path returns
Resolved(c, path_str) == resolve_path(c, path_str).path

\* help, ps, sysmon, df, history: print, and touch neither tree nor cwd
cmd_info(f, c, args) == Done(f, c, <<Chunk("out", "info", <<>>)>>)

cmd_pwd(f, c, args) == Done(f, c, <<Chunk("out", "", PathStr(c))>>)

cmd_echo(f, c, args) == Done(f, c, <<Chunk("out", "", JoinSpace(args))>>)

cmd_exit(f, c, args) == Fault(f, c, <<>>, "SystemExit")

\* a faulty ls that enters the directory it lists
cmd_ls_enter(f, c, args) ==
    LET show_all == \E i \in 1..Len(args) : args[i] = F_a
        targets == SelectSeq(args, LAMBDA a : a # F_a)
        path == IF targets = <<>> THEN c ELSE Resolved(c, targets[Len(targets)])
        sorted == SelectSeq(Entries(f, path), LAMBDA q : is_dir(f, q))
                  \o SelectSeq(Entries(f, path), LAMBDA q : ~is_dir(f, q))
        items == SelectSeq(sorted, LAMBDA q : show_all \/ q[Len(q)] # DOT)
    IN IF ~exists(f, path) THEN Done(f, c, <<print_err("path not found", <<>>)>>)
       ELSE IF is_file(f, path) THEN Done(f, c, <<Chunk("out", "", PathName(path))>>)
       ELSE Done(f, path, [i \in 1..Len(items) |->
                             Chunk("out", IF is_dir(f, items[i]) THEN "/" ELSE "",
                                   PathName(items[i]))])

cmd_ls(f, c, args) ==
    LET show_all == \E i \in 1..Len(args) : args[i] = F_a
        targets == SelectSeq(args, LAMBDA a : a # F_a)
        path == IF targets = <<>> THEN c ELSE Resolved(c, targets[Len(targets)])
        sorted == SelectSeq(Entries(f, path), LAMBDA q : is_dir(f, q))
                  \o SelectSeq(Entries(f, path), LAMBDA q : ~is_dir(f, q))
        items == SelectSeq(sorted, LAMBDA q : show_all \/ q[Len(q)] # DOT)
    IN IF ~exists(f, path) THEN Done(f, c, <<print_err("path not found", <<>>)>>)
       ELSE IF is_file(f, path) THEN Done(f, c, <<Chunk("out", "", PathName(path))>>)
       ELSE Done(f, c, [i \in 1..Len(items) |->
                          Chunk("out", IF is_dir(f, items[i]) THEN "/" ELSE "",
                                PathName(items[i]))])

\* A faulty cd that joins the path itself and checks only that it is a
\* directory
cmd_cd_unconfined(f, c, args) ==
    LET path == IF args # <<>>
                THEN Normalize(IF is_absolute(args[1]) THEN <<>> ELSE c, PathParts(args[1]))
                ELSE Root
    IN IF ~exists(f, path) \/ ~is_dir(f, path)
       THEN Done(f, c, <<print_err("no such directory", <<>>)>>)
       ELSE Done(f, path, <<>>)

cmd_cd(f, c, args) ==
    LET path == IF args # <<>> THEN Resolved(c, args[1]) ELSE Root IN
    IF ~exists(f, path) \/ ~is_dir(f, path)
    THEN Done(f, c, <<print_err("no such directory", <<>>)>>)
    ELSE IF relative_to(path, Root).raised
    THEN Done(f, c, <<print_err("access outside project root is blocked", <<>>)>>)
    ELSE Done(f, path, <<>>)

RECURSIVE MkdirEach(_, _, _)
MkdirEach(f, c, ds) ==
    IF ds = <<>> THEN Done(f, c, <<>>)
    ELSE LET r == mkdir_p(f, Resolved(c, Head(ds))) IN
         IF r.exc # "none" THEN Fault(f, c, <<>>, r.exc)
         ELSE MkdirEach(r.fs, c, Tail(ds))

cmd_mkdir(f, c, args) ==
    IF args = <<>> THEN Done(f, c, <<print_err("usage: mkdir <dir>...", <<>>)>>)
    ELSE MkdirEach(f, c, args)

RECURSIVE RmEach_stop(_, _, _, _, _, _)
\* a loop that leaves at the first declined confirmation (return in place of
\* continue)
RmEach_stop(f, c, paths, recursive, answers, o) ==
    IF paths = <<>> THEN Done(f, c, o)
    ELSE LET pstr == Head(paths)
             p == Resolved(c, pstr)
             rest == Tail(paths)
         IN IF ~exists(f, p)
            THEN RmEach_stop(f, c, rest, recursive, answers,
                             Append(o, print_err("not found: ", pstr)))
            ELSE IF is_dir(f, p)
            THEN IF ~recursive
                 THEN RmEach_stop(f, c, rest, recursive, answers,
                                  Append(o, print_err("is a directory (use -r): ", pstr)))
                 ELSE LET asked == Append(o, Chunk("prompt", "rm -r [y/N]: ", PathStr(p)))
                          left == IF answers = <<>> THEN <<>> ELSE Tail(answers)
                      IN IF ~confirm(answers)
                         THEN Done(f, c, Append(asked, Chunk("out", "aborted", <<>>)))
                         ELSE RmEach_stop(rmtree(f, p), c, rest, recursive, left, asked)
            ELSE RmEach_stop(Without(f, {p}), c, rest, recursive, answers, o)

RECURSIVE RmEach(_, _, _, _, _, _)
RmEach(f, c, paths, recursive, answers, o) ==
    IF paths = <<>> THEN Done(f, c, o)
    ELSE LET pstr == Head(paths)
             p == Resolved(c, pstr)
             rest == Tail(paths)
         IN IF ~exists(f, p)
            THEN RmEach(f, c, rest, recursive, answers,
                        Append(o, print_err("not found: ", pstr)))
            ELSE IF is_dir(f, p)
            THEN IF ~recursive
                 THEN RmEach(f, c, rest, recursive, answers,
                             Append(o, print_err("is a directory (use -r): ", pstr)))
                 ELSE LET asked == Append(o, Chunk("prompt", "rm -r [y/N]: ", PathStr(p)))
                          left == IF answers = <<>> THEN <<>> ELSE Tail(answers)
                      IN IF ~confirm(answers)
                         THEN RmEach(f, c, rest, recursive, left,
                                     Append(asked, Chunk("out", "aborted", <<>>)))
                         ELSE RmEach(rmtree(f, p), c, rest, recursive, left, asked)
            ELSE RmEach(Without(f, {p}), c, rest, recursive, answers, o)

cmd_rm(f, c, args, answers) ==
    IF args = <<>> THEN Done(f, c, <<print_err("usage: rm [-r] <path>...", <<>>)>>)
    ELSE RmEach(f, c, SelectSeq(args, LAMBDA a : a # F_r),
                \E i \in 1..Len(args) : args[i] = F_r, answers, <<>>)

RECURSIVE TouchEach(_, _, _)
\* open(p, 'a') makes the file when there is none and keeps its text when
\* there is one
TouchEach(f, c, fls) ==
    IF fls = <<>> THEN Done(f, c, <<>>)
    ELSE LET p == Resolved(c, Head(fls))
             mk == mkdir_p(f, Parent(p))
         IN IF mk.exc # "none" THEN Fault(f, c, <<>>, mk.exc)
            ELSE IF is_dir(mk.fs, p) THEN Fault(mk.fs, c, <<>>, "IsADirectoryError")
            ELSE IF is_file(mk.fs, p) THEN TouchEach(mk.fs, c, Tail(fls))
            ELSE TouchEach(With(mk.fs, {p}, File(<<>>)), c, Tail(fls))

cmd_touch(f, c, args) ==
    IF args = <<>> THEN Done(f, c, <<print_err("usage: touch <file>...", <<>>)>>)
    ELSE TouchEach(f, c, args)

\* print(text, end=''): one print of the whole text; nothing shows when the
\* text is empty
PrintText(text) == IF text = <<>> THEN <<>> ELSE <<Chunk("out", "text", text)>>

RECURSIVE CatEach_first_error(_, _, _, _)
\* a loop that leaves at the first argument that is no file (return in place
\* of continue)
CatEach_first_error(f, c, fls, o) ==
    IF fls = <<>> THEN Done(f, c, o)
    ELSE LET p == Resolved(c, Head(fls)) IN
         IF ~exists(f, p) \/ ~is_file(f, p)
         THEN Done(f, c, Append(o, print_err("no such file: ", Head(fls))))
         ELSE CatEach_first_error(f, c, Tail(fls), o \o PrintText(f[p].c))

RECURSIVE CatEach(_, _, _, _)
CatEach(f, c, fls, o) ==
    IF fls = <<>> THEN Done(f, c, o)
    ELSE LET p == Resolved(c, Head(fls)) IN
         IF ~exists(f, p) \/ ~is_file(f, p)
         THEN CatEach(f, c, Tail(fls), Append(o, print_err("no such file: ", Head(fls))))
         ELSE CatEach(f, c, Tail(fls), o \o PrintText(f[p].c))

cmd_cat(f, c, args) ==
    IF args = <<>> THEN Done(f, c, <<print_err("usage: cat <file>...", <<>>)>>)
    ELSE CatEach(f, c, args, <<>>)

cmd_cp(f, c, args, order) ==
    IF Len(args) < 2 THEN Done(f, c, <<print_err("usage: cp <src> <dst>", <<>>)>>)
    ELSE LET src == Resolved(c, args[1])
             dst == Resolved(c, args[2])
         IN IF ~exists(f, src) THEN Done(f, c, <<print_err("source not found", <<>>)>>)
            ELSE IF is_dir(f, src)
            THEN LET d == IF exists(f, dst) /\ is_dir(f, dst)
                          THEN dst \o PathName(src) ELSE dst
                     r == copytree(f, src, d, order)
                 IN Fault(r.fs, c, <<>>, r.exc)
            ELSE LET d == IF is_dir(f, dst) THEN dst \o PathName(src) ELSE dst
                     mk == mkdir_p(f, Parent(d))
                     r == copy2(mk.fs, src, d)
                 IN IF mk.exc # "none" THEN Fault(f, c, <<>>, mk.exc)
                    ELSE Fault(r.fs, c, <<>>, r.exc)

\* a handler that makes the parents of the destination before it looks at
\* the source
cmd_mv_parents_first(f, c, args) ==
    IF Len(args) < 2 THEN Done(f, c, <<print_err("usage: mv <src> <dst>", <<>>)>>)
    ELSE LET src == Resolved(c, args[1])
             dst == Resolved(c, args[2])
             mk == mkdir_p(f, Parent(dst))
             r == move(mk.fs, src, dst)
         IN IF mk.exc # "none" THEN Fault(f, c, <<>>, mk.exc)
            ELSE IF ~exists(f, src) THEN Done(mk.fs, c, <<print_err("source not found", <<>>)>>)
            ELSE Fault(r.fs, c, <<>>, r.exc)

cmd_mv(f, c, args) ==
    IF Len(args) < 2 THEN Done(f, c, <<print_err("usage: mv <src> <dst>", <<>>)>>)
    ELSE LET src == Resolved(c, args[1])
             dst == Resolved(c, args[2])
             mk == mkdir_p(f, Parent(dst))
             r == move(mk.fs, src, dst)
         IN IF ~exists(f, src) THEN Done(f, c, <<print_err("source not found", <<>>)>>)
            ELSE IF mk.exc # "none" THEN Fault(f, c, <<>>, mk.exc)
            ELSE Fault(r.fs, c, <<>>, r.exc)

\* a reader whose tail prints the first n lines as head does
read_n_lines_from_top(text, n, tail) ==
    IF n <= 0 THEN <<>>
    ELSE LET m == IF n < Len(text) THEN n ELSE Len(text)
         IN [i \in 1..m |-> Chunk("out", "text", <<text[i]>>)]

\* The lines _read_n_lines prints of a text, one print a line: the first n,
\* or with tail the last n; none when n <= 0
read_n_lines(text, n, tail) ==
    IF n <= 0 THEN <<>>
    ELSE LET m == IF n < Len(text) THEN n ELSE Len(text)
             shown == IF tail THEN SubSeq(text, Len(text) - m + 1, Len(text))
                      ELSE SubSeq(text, 1, m)
         IN [i \in 1..m |-> Chunk("out", "text", <<shown[i]>>)]

Digits == <<"0", "1", "2", "3", "4", "5", "6", "7", "8", "9">>

IsDigit(ch) == \E i \in 1..Len(Digits) : Digits[i] = ch

\* int(tok) returns: an optional sign and then digits only (the tokens of
\* the lines here hold no underscore and no white space, which int takes
\* between and around digits)
IsInt(tok) ==
    LET d == IF tok # <<>> /\ tok[1] \in {"-", "+"} THEN Tail(tok) ELSE tok IN
    d # <<>> /\ \A i \in 1..Len(d) : IsDigit(d[i])

RECURSIVE DigitsValue(_, _)
DigitsValue(d, acc) ==
    IF d = <<>> THEN acc
    ELSE DigitsValue(Tail(d), acc * 10 + (CHOOSE i \in 1..Len(Digits) : Digits[i] = Head(d)) - 1)

\* int(tok), for a tok that IsInt
IntOf(tok) ==
    IF tok[1] = "-" THEN 0 - DigitsValue(Tail(tok), 0)
    ELSE IF tok[1] = "+" THEN DigitsValue(Tail(tok), 0)
    ELSE DigitsValue(tok, 0)

\* head and tail print this many lines when no -n is given
DefaultLines == 10

RECURSIVE HeadArgs(_, _, _)
\* the loop over the arguments of head and tail: -n takes the argument after
\* it as n, every other argument is a file; not ok ("invalid N") when that
\* argument is missing or no integer
HeadArgs(args, n, files) ==
    IF args = <<>> THEN [ok |-> TRUE, n |-> n, files |-> files]
    ELSE IF Head(args) = F_n
    THEN IF Len(args) < 2 \/ ~IsInt(args[2]) THEN [ok |-> FALSE, n |-> n, files |-> <<>>]
         ELSE HeadArgs(Tail(Tail(args)), IntOf(args[2]), files)
    ELSE HeadArgs(Tail(args), n, Append(files, Head(args)))

RECURSIVE HeadEach(_, _, _, _, _, _)
HeadEach(f, c, fls, n, tail, o) ==
    IF fls = <<>> THEN Done(f, c, o)
    ELSE LET p == Resolved(c, Head(fls)) IN
         IF ~exists(f, p) \/ ~is_file(f, p)
         THEN HeadEach(f, c, Tail(fls), n, tail,
                       Append(o, print_err("no such file: ", Head(fls))))
         ELSE HeadEach(f, c, Tail(fls), n, tail, o \o read_n_lines(f[p].c, n, tail))

cmd_head(f, c, args) ==
    IF args = <<>> THEN Done(f, c, <<print_err("usage: head [-n N] <file>", <<>>)>>)
    ELSE LET h == HeadArgs(args, DefaultLines, <<>>) IN
         IF ~h.ok THEN Done(f, c, <<print_err("invalid N", <<>>)>>)
         ELSE HeadEach(f, c, h.files, h.n, FALSE, <<>>)

cmd_tail(f, c, args) ==
    IF args = <<>> THEN Done(f, c, <<print_err("usage: tail [-n N] <file>", <<>>)>>)
    ELSE LET h == HeadArgs(args, DefaultLines, <<>>) IN
         IF ~h.ok THEN Done(f, c, <<print_err("invalid N", <<>>)>>)
         ELSE HeadEach(f, c, h.files, h.n, TRUE, <<>>)

\* self.commands.get(cmd)(args)
Handler(cmd, f, c, args, env) ==
    CASE cmd = W_pwd -> cmd_pwd(f, c, args)
      [] cmd = W_ls -> cmd_ls(f, c, args)
      [] cmd = W_cd -> cmd_cd(f, c, args)
      [] cmd = W_mkdir -> cmd_mkdir(f, c, args)
      [] cmd = W_rm -> cmd_rm(f, c, args, env.answers)
      [] cmd = W_touch -> cmd_touch(f, c, args)
      [] cmd = W_cat -> cmd_cat(f, c, args)
      [] cmd = W_echo -> cmd_echo(f, c, args)
      [] cmd = W_cp -> cmd_cp(f, c, args, env.order)
      [] cmd = W_mv -> cmd_mv(f, c, args)
      [] cmd = W_head -> cmd_head(f, c, args)
      [] cmd = W_tail -> cmd_tail(f, c, args)
      [] cmd \in {W_exit, W_quit} -> cmd_exit(f, c, args)
      [] OTHER -> cmd_info(f, c, args)

----------------------------------------------------------------------------
(* Terminal.execute(line) *)

\* What a call of execute leaves: tree, cwd, what was printed, the
\* exception that left execute ("none" when it returned) and the handler
\* call it made.
Returned(f, c, o, e, k) == [fs |-> f, cwd |-> c, out |-> o, raised |-> e, calls |-> k]

\* A faulty execute whose except Exception clause takes SystemExit too
Guarded_swallow(r, k) ==
    IF r.exc = "none" THEN Returned(r.fs, r.cwd, r.out, "none", k)
    ELSE Returned(r.fs, r.cwd, Append(r.out, print_err(r.exc, <<>>)), "none", k)

\* try: fn(args) / except SystemExit: raise / except Exception as e: print
Guarded(r, k) ==
    IF r.exc = "none" THEN Returned(r.fs, r.cwd, r.out, "none", k)
    ELSE IF r.exc = "SystemExit" THEN Returned(r.fs, r.cwd, r.out, "SystemExit", k)
    ELSE Returned(r.fs, r.cwd, Append(r.out, print_err(r.exc, <<>>)), "none", k)

\* A faulty lookup that takes the command name in any case: str.lower() on
\* the letters the lines of the model hold in upper case
Unpacked_anycase(f, c, parts, env) ==
    IF parts = <<>> THEN Returned(f, c, <<>>, "ValueError", <<>>)
    ELSE LET lower(ch) == IF ch = "C" THEN "c" ELSE IF ch = "D" THEN "d" ELSE ch
             cmd == [i \in 1..Len(Head(parts)) |-> lower(Head(parts)[i])]
             args == Tail(parts)
         IN IF cmd \notin commands
            THEN Returned(f, c, <<print_err("unknown command: ", cmd)>>, "none", <<>>)
            ELSE Guarded(Handler(cmd, f, c, args, env),
                         <<[cmd |-> cmd, args |-> args]>>)

\* cmd, *args = parts, on the parts shlex gave
Unpacked(f, c, parts, env) ==
    IF parts = <<>> THEN Returned(f, c, <<>>, "ValueError", <<>>)
    ELSE LET cmd == Head(parts)
             args == Tail(parts)
         IN IF cmd \notin commands
            THEN Returned(f, c, <<print_err("unknown command: ", cmd)>>, "none", <<>>)
            ELSE Guarded(Handler(cmd, f, c, args, env),
                         <<[cmd |-> cmd, args |-> args]>>)

execute(f, c, l, env) ==
    LET sp == shlex_split(l) IN
    IF ~sp.ok THEN Returned(f, c, <<print_err("parse error: ", <<>>)>>, "none", <<>>)
    ELSE Unpacked(f, c, sp.parts, env)

----------------------------------------------------------------------------
(* run_commands(term, plan, dry_run) *)

\* A faulty plan text that drops the commands without tokens
plan_text_nonempty(p) ==
    LET q == SelectSeq(p, LAMBDA cmd : cmd # <<>>) IN
    [i \in 1..Len(q) |-> <<"$", SP>> \o JoinSpace(q[i])]

\* "\n".join("$ " + " ".join(map(str, cmd)) for cmd in plan), line by line
plan_text(p) == [i \in 1..Len(p) |-> <<"$", SP>> \o JoinSpace(p[i])]

\* the output of a dry run: "(dry run)"
DryRunOutput == <<Chunk("out", "(dry run)", <<>>)>>

\* A faulty loop body that echoes the line after running it
loop_body_echo_last(f, c, cmd, env) ==
    LET l == JoinSpace(cmd)
        r == execute(f, c, l, env)
        caught == IF r.raised = "SystemExit" THEN <<Chunk("exit", "exit", <<>>)>>
                  ELSE IF r.raised # "none" THEN <<print_err(r.raised, <<>>)>>
                  ELSE <<>>
    IN [line |-> l, r |-> r,
        printed |-> r.out \o <<Chunk("echo", "$ ", l)>> \o caught]

\* One pass of the loop body on cmd: the echo, term.execute(line), and the
\* two except clauses.  printed is what the pass writes to the buffer.
loop_body(f, c, cmd, env) ==
    LET l == JoinSpace(cmd)
        r == execute(f, c, l, env)
        caught == IF r.raised = "SystemExit" THEN <<Chunk("exit", "exit", <<>>)>>
                  ELSE IF r.raised # "none" THEN <<print_err(r.raised, <<>>)>>
                  ELSE <<>>
    IN [line |-> l, r |-> r,
        printed |-> <<Chunk("echo", "$ ", l)>> \o r.out \o caught]

\* A faulty loop that gives up the plan at the first command that reports an
\* error
loop_next_stop_on_error(p, i, r) ==
    IF r.raised \notin {"none", "SystemExit"} \/ \E j \in 1..Len(r.out) : r.out[j].k = "err"
    THEN Len(p) + 1
    ELSE i + 1

\* The index the loop goes on with after the pass on plan[i] that ended r:
\* both except clauses sit inside the loop, so the next command in any case.
loop_next(p, i, r) == i + 1

----------------------------------------------------------------------------
(* The lines given to the terminal *)

\* Path arguments as typed: a  h  ..  a/h  /a  ''
PathArgs ==
    { <<"a">>, <<"h">>, <<DOT, DOT>>, <<"a", SLASH, "h">>, <<SLASH, "a">>, <<SQ, SQ>> }

\* The path arguments of the two-path commands cp and mv
PairArgs == { <<"a">>, <<"h">>, <<DOT, DOT>>, <<"a", SLASH, "h">> }

\* One-path commands, with and without their argument
OnePathLines ==
    {W_cd, W_mkdir, W_touch, W_rm}
    \cup {JoinSpace(<<w, p>>) : w \in {W_cd, W_mkdir, W_touch, W_rm}, p \in PathArgs}
    \cup {JoinSpace(<<W_rm, F_r, p>>) : p \in PathArgs}
    \cup {JoinSpace(<<W_mkdir, <<"a">>, <<"h", SLASH, "a">>, <<"h">> >>),
          JoinSpace(<<W_rm, F_r, <<"a">>, <<"h">> >>)}

TwoPathLines ==
    {W_cp, W_mv}
    \cup {JoinSpace(<<w, p, q>>) : w \in {W_cp, W_mv}, p \in PairArgs, q \in PairArgs}

\* Lines that change no file: pwd, ls, ls a, help, df, cat, head, tail, echo,
\* exit and quit, an unknown command, a command name in upper case, the empty
\* line, a blank line, an unbalanced quote, and a quoted empty command name
OtherLines ==
    { W_pwd, W_ls, JoinSpace(<<W_ls, <<"a">> >>), W_help, W_df,
      JoinSpace(<<W_cat, <<"a">> >>), JoinSpace(<<W_head, <<"a">> >>),
      JoinSpace(<<W_tail, <<"a">> >>),
      JoinSpace(<<W_echo, <<"a">> >>), W_exit, JoinSpace(<<W_quit, <<"a">> >>),
      JoinSpace(<<<<"z", "z">>, <<"a">> >>), <<"C", "D">>,
      <<>>, <<SP, SP>>, W_cd \o <<SP, SQ, "a">>, <<SQ, SQ>> }

Lines == OnePathLines \cup TwoPathLines \cup OtherLines

\* What the user answers to the prompts of one line: "y", anything else
\* ("n"), or nothing (end of file)
AnswerSeqs == {<<>>, <<"y">>, <<"n">>, <<"y", "y">>, <<"y", "n">>, <<"n", "y">>}

\* What a line can meet: only rm prompts, only cp lists directories
EnvsFor(l) ==
    LET sp == shlex_split(l)
        cmd == IF sp.ok /\ sp.parts # <<>> THEN Head(sp.parts) ELSE <<>>
    IN IF cmd = W_rm THEN {Env(a, NameOrder) : a \in AnswerSeqs}
       ELSE IF cmd = W_cp THEN {Env(<<>>, o) : o \in ScanOrders}
       ELSE {Env(<<>>, NameOrder)}

\* Plan commands, as token lists: mkdir a, touch a, cd a, rm -r a, exit,
\* quit a, an unknown command, a token holding one quote, the empty command,
\* mkdir without argument, mkdir h, rm -r a h, mkdir with the one token "a h"
\* (a space inside), and cd with the empty string as its token
PlanCmds ==
    { <<W_mkdir, <<"a">> >>, <<W_touch, <<"a">> >>, <<W_cd, <<"a">> >>,
      <<W_rm, F_r, <<"a">> >>, <<W_exit>>, <<W_quit, <<"a">> >>,
      << <<"z", "z">> >>, <<W_cd, <<SQ>> >>, <<>>, <<W_mkdir>>,
      <<W_mkdir, <<"h">> >>, <<W_rm, F_r, <<"a">>, <<"h">> >>,
      <<W_mkdir, <<"a", SP, "h">> >>, <<W_cd, <<>> >> }

RECURSIVE SeqsUpTo(_, _)
\* the sequences over S of length at most n
SeqsUpTo(S, n) ==
    IF n = 0 THEN {<<>>}
    ELSE LET shorter == SeqsUpTo(S, n - 1) IN
         shorter \cup {Append(q, x) : q \in shorter, x \in S}

Plans == SeqsUpTo(PlanCmds, MaxPlanLen)

\* The raw path strings given to _resolve_path: up to MaxSegs segments joined
\* by "/", a segment being a name, "..", "." or empty.  An empty first
\* segment makes the path absolute, an empty later one a doubled or
\* trailing slash.
Segments == {<<"a">>, <<"h">>, <<DOT, DOT>>, <<DOT>>, <<>>}
RawPaths == {JoinWith(<<SLASH>>, q) : q \in SeqsUpTo(Segments, MaxSegs)}

\* The lines that move cwd about for _resolve_path
ResolveLines ==
    { JoinSpace(<<W_mkdir, <<"a", SLASH, "h">> >>), JoinSpace(<<W_mkdir, <<"h">> >>),
      JoinSpace(<<W_cd, <<"a">> >>), JoinSpace(<<W_cd, <<"h">> >>),
      JoinSpace(<<W_cd, <<DOT, DOT>> >>) }

----------------------------------------------------------------------------
(* The state machine *)

(* parser.py: the planner.  An instruction is a string; an allow-list is   *)
(* kept as the set of its command names, the empty set standing for [] and *)
(* None alike (both are false to "or").                                     *)

UpperCase == <<"A", "B", "C", "D", "E", "F", "G", "H", "I", "J", "K", "L", "M",
               "N", "O", "P", "Q", "R", "S", "T", "U", "V", "W", "X", "Y", "Z">>
LowerCase == <<"a", "b", "c", "d", "e", "f", "g", "h", "i", "j", "k", "l", "m",
               "n", "o", "p", "q", "r", "s", "t", "u", "v", "w", "x", "y", "z">>

\* str.lower()
str_lower(s) ==
    [i \in 1..Len(s) |->
        IF \E k \in 1..26 : UpperCase[k] = s[i]
        THEN LowerCase[CHOOSE k \in 1..26 : UpperCase[k] = s[i]]
        ELSE s[i]]

RECURSIVE str_strip(_)
\* str.strip(), white space being the space
str_strip(s) ==
    IF s = <<>> THEN s
    ELSE IF Head(s) = SP THEN str_strip(Tail(s))
    ELSE IF s[Len(s)] = SP THEN str_strip(SubSeq(s, 1, Len(s) - 1))
    ELSE s

RECURSIVE SplitWords(_, _, _)
SplitWords(s, cur, acc) ==
    IF s = <<>> THEN (IF cur = <<>> THEN acc ELSE Append(acc, cur))
    ELSE IF Head(s) = SP
    THEN SplitWords(Tail(s), <<>>, IF cur = <<>> THEN acc ELSE Append(acc, cur))
    ELSE SplitWords(Tail(s), Append(cur, Head(s)), acc)

\* str.split(): the words between runs of white space
str_split(s) == SplitWords(s, <<>>, <<>>)

\* str.startswith(prefix)
startswith(s, prefix) == Len(s) >= Len(prefix) /\ SubSeq(s, 1, Len(prefix)) = prefix

T_make_folder == <<"m", "a", "k", "e", SP, "f", "o", "l", "d", "e", "r">>
T_create_folder == <<"c", "r", "e", "a", "t", "e", SP, "f", "o", "l", "d", "e", "r">>
T_delete_file == <<"d", "e", "l", "e", "t", "e", SP, "f", "i", "l", "e">>
T_show_files == <<"s", "h", "o", "w", SP, "f", "i", "l", "e", "s">>
T_list_files == <<"l", "i", "s", "t", SP, "f", "i", "l", "e", "s">>
T_current_dir == <<"c", "u", "r", "r", "e", "n", "t", SP, "d", "i", "r">>
T_where_am_i == <<"w", "h", "e", "r", "e", SP, "a", "m", SP, "i">>

\* _rule_based(nl): the commands of the pattern the instruction meets, or
\* None
rule_based(nl) ==
    LET text == str_strip(str_lower(nl))
        tokens == str_split(text)
        Some(cmds) == [none |-> FALSE, cmds |-> cmds]
    IN IF (startswith(text, T_make_folder) \/ startswith(text, T_create_folder))
           /\ Len(tokens) >= 3
       THEN Some(<< <<W_mkdir, tokens[Len(tokens)]>> >>)
       ELSE IF startswith(text, T_delete_file) /\ Len(tokens) >= 3
       THEN Some(<< <<W_rm, tokens[Len(tokens)]>> >>)
       ELSE IF startswith(text, T_show_files) \/ text = T_list_files
       THEN Some(<< <<W_ls>> >>)
       ELSE IF startswith(text, T_current_dir) \/ text = T_where_am_i
       THEN Some(<< <<W_pwd>> >>)
       ELSE [none |-> TRUE, cmds |-> <<>>]

\* allowed or (CFG.get("allowed_commands") or [])
EffectiveAllowed(allowed, cfg) == IF allowed # {} THEN allowed ELSE cfg

\* An entry of the "commands" list of a reply: a list of tokens, or a value
\* that is no list
ListEntry(toks) == [is_list |-> TRUE, toks |-> toks]
OtherEntry == [is_list |-> FALSE, toks |-> <<>>]

\* the loop over data.get("commands", []): the entries that are non-empty
\* lists with a first token in allowed, in order
clean_of(cmds, allowed) ==
    LET kept == SelectSeq(cmds, LAMBDA entry :
                    entry.is_list /\ entry.toks # <<>> /\ entry.toks[1] \in allowed)
    IN [i \in 1..Len(kept) |-> kept[i].toks]

\* What nl_to_commands hands back: a list of commands, or the exception
\* that left it
Planned(cmds, e) == [commands |-> cmds, exc |-> e]

\* nl_to_commands(nl, cwd_rel, allowed), with the configured allow-list cfg,
\* key telling whether an API key is configured, and reply what the model
\* answers: nothing, text that is no JSON object, or an object whose
\* "commands" is the list reply.commands; or the call to the model raises
nl_to_commands(nl, allowed, cfg, key, reply) ==
    IF ~rule_based(nl).none THEN Planned(rule_based(nl).cmds, "none")
    ELSE IF ~key THEN Planned(<<>>, "RuntimeError")
    ELSE IF reply.kind = "raise" THEN Planned(<<>>, "Exception")
    ELSE IF reply.kind = "empty" THEN Planned(<<>>, "none")
    ELSE IF reply.kind = "garbage" THEN Planned(<<>>, "none")
    ELSE Planned(clean_of(reply.commands, EffectiveAllowed(allowed, cfg)), "none")

NoPlanner == [nl |-> <<>>, allowed |-> {}, cfg |-> {}, commands |-> <<>>, exc |-> "none"]

-----------------------------------------------------------------------------
NoRes == [raw |-> <<>>, from |-> <<>>, path |-> <<>>, raised |-> FALSE]

Init ==
    /\ fs = Tree0
    /\ cwd = Root
    /\ pc = "idle"
    /\ line = <<>>
    /\ out = <<>>
    /\ raised = "none"
    /\ calls = <<>>
    /\ res = NoRes
    /\ plan = <<>>
    /\ dry = FALSE
    /\ idx = 0
    /\ buf = <<>>
    /\ ran = <<>>
    /\ ret = <<>>
    /\ session = "running"
    /\ hist = <<>>
    /\ planner = NoPlanner

\* A caller (the REPL loop, exec_line_and_capture, a program that uses the
\* class) has the line l for term.execute; lines whose effect leaves the
\* bounds of the model are left out.
Call(l) ==
    /\ pc = "idle"
    /\ \A o \in ScanOrders : InBounds(execute(fs, cwd, l, Env(<<"y", "y">>, o)).fs)
    /\ pc' = "called"
    /\ line' = l
    /\ UNCHANGED <<planner, fs, cwd, out, raised, calls, res, plan, dry, idx, buf, ran, ret, session, hist>>

\* term.execute(line), the user answering the prompts it makes
Exec ==
    /\ pc = "called"
    /\ \E env \in EnvsFor(line) :
         \E r \in {execute(fs, cwd, line, env)} :
            /\ InBounds(r.fs)
            /\ fs' = r.fs
            /\ cwd' = r.cwd
            /\ out' = r.out
            /\ raised' = r.raised
            /\ calls' = r.calls
    /\ pc' = "done"
    /\ UNCHANGED <<planner, line, res, plan, dry, idx, buf, ran, ret, session, hist>>

\* self._resolve_path(s)
ResolveCall(s) ==
    /\ pc = "idle"
    /\ \E r \in {resolve_path(cwd, s)} :
         res' = [raw |-> s, from |-> cwd, path |-> r.path, raised |-> r.raised]
    /\ pc' = "resolved"
    /\ UNCHANGED <<planner, fs, cwd, line, out, raised, calls, plan, dry, idx, buf, ran, ret, session, hist>>

\* run_commands(term, p, d) up to its loop: a dry run returns at once
RunCall(p, d) ==
    /\ pc = "idle"
    /\ plan' = p
    /\ dry' = d
    /\ IF d
       THEN /\ pc' = "returned"
            /\ ret' = <<plan_text(p), DryRunOutput>>
            /\ idx' = idx
       ELSE /\ pc' = "loop"
            /\ idx' = 1
            /\ ret' = ret
    /\ UNCHANGED <<planner, fs, cwd, line, out, raised, calls, res, buf, ran, session, hist>>

\* One pass of the loop of run_commands
RunStep ==
    /\ pc = "loop"
    /\ idx <= Len(plan)
    /\ \E env \in EnvsFor(JoinSpace(plan[idx])) :
         \E b \in {loop_body(fs, cwd, plan[idx], env)} :
            /\ InBounds(b.r.fs)
            /\ fs' = b.r.fs
            /\ cwd' = b.r.cwd
            /\ line' = b.line
            /\ out' = b.r.out
            /\ raised' = b.r.raised
            /\ calls' = b.r.calls
            /\ buf' = buf \o b.printed
            /\ idx' = loop_next(plan, idx, b.r)
    /\ ran' = Append(ran, idx)
    /\ UNCHANGED <<planner, pc, res, plan, dry, ret, session, hist>>

\* return (plan_text, buf.getvalue())
RunReturn ==
    /\ pc = "loop"
    /\ idx > Len(plan)
    /\ pc' = "returned"
    /\ ret' = <<plan_text(plan), buf>>
    /\ UNCHANGED <<planner, fs, cwd, line, out, raised, calls, res, plan, dry, idx, buf, ran, session, hist>>

\* The caller has what the call gave; the locals of the call are gone.
Return ==
    /\ pc \in {"done", "resolved", "returned"}
    /\ pc' = "idle"
    /\ line' = <<>>
    /\ out' = <<>>
    /\ raised' = "none"
    /\ calls' = <<>>
    /\ res' = NoRes
    /\ plan' = <<>>
    /\ dry' = FALSE
    /\ idx' = 0
    /\ buf' = <<>>
    /\ ran' = <<>>
    /\ ret' = <<>>
    /\ UNCHANGED <<planner, fs, cwd, session, hist>>

\* The terminal, line by line
Next ==
    \/ \E l \in Lines : Call(l)
    \/ Exec
    \/ Return

Spec == Init /\ [][Next]_vars

\* The plan executor
NextPlan ==
    \/ \E p \in Plans, d \in BOOLEAN : RunCall(p, d)
    \/ RunStep
    \/ RunReturn
    \/ Return

SpecPlan == Init /\ [][NextPlan]_vars

\* The lines typed at the prompt of the REPL: exit and quit with and without
\* arguments, commands that change the tree and cwd, an unknown command, an
\* unbalanced quote, and the empty and the blank line
ReplLines ==
    { W_exit, JoinSpace(<<W_quit, <<"a">> >>), JoinSpace(<<W_exit, <<"0">>, <<"a">> >>),
      W_pwd, JoinSpace(<<W_mkdir, <<"a">> >>), JoinSpace(<<W_cd, <<"a">> >>),
      JoinSpace(<<<<"z", "z">>, W_exit>>), W_cd \o <<SP, SQ, "a">>,
      <<>>, <<SP, SP>> }

\* line = input(...): the user has typed the line l
ReplRead(l) ==
    /\ pc = "idle"
    /\ session = "running"
    /\ Len(hist) < MaxHist
    /\ pc' = "read"
    /\ line' = l
    /\ UNCHANGED <<planner, fs, cwd, out, raised, calls, res, plan, dry, idx, buf, ran, ret,
                   session, hist>>

\* except (EOFError, KeyboardInterrupt): print("\nexit"); break -- run
\* returns, and main with it
ReplEOF ==
    /\ pc = "idle"
    /\ session = "running"
    /\ session' = "exit 0"
    /\ UNCHANGED <<planner, fs, cwd, pc, line, out, raised, calls, res, plan, dry, idx, buf, ran,
                   ret, hist>>

\* if not line.strip(): continue
ReplSkip ==
    /\ pc = "read"
    /\ IsBlank(line)
    /\ pc' = "idle"
    /\ line' = <<>>
    /\ UNCHANGED <<planner, fs, cwd, out, raised, calls, res, plan, dry, idx, buf, ran, ret,
                   session, hist>>

\* append_history(line), and on to self.execute(line)
ReplAppend ==
    /\ pc = "read"
    /\ ~IsBlank(line)
    /\ hist' = Append(hist, line)
    /\ pc' = "called"
    /\ UNCHANGED <<planner, fs, cwd, line, out, raised, calls, res, plan, dry, idx, buf, ran, ret,
                   session>>

\* How the process ends when e leaves run: main turns SystemExit(0) into
\* sys.exit(0) and any other exception into "fatal" and sys.exit(1)
main_exit(e) == IF e = "SystemExit" THEN "exit 0" ELSE "exit 1"

\* self.execute(line) is over: back to the prompt when it returned, out of
\* run and main when it raised
ReplNext ==
    /\ pc = "done"
    /\ session' = IF raised = "none" THEN session ELSE main_exit(raised)
    /\ pc' = "idle"
    /\ line' = <<>>
    /\ out' = <<>>
    /\ raised' = "none"
    /\ calls' = <<>>
    /\ UNCHANGED <<planner, fs, cwd, res, plan, dry, idx, buf, ran, ret, hist>>

\* The REPL of Terminal.run under main
NextRepl ==
    \/ \E l \in ReplLines : ReplRead(l)
    \/ ReplEOF
    \/ ReplSkip
    \/ ReplAppend
    \/ Exec
    \/ ReplNext

SpecRepl == Init /\ [][NextRepl]_vars

\* _resolve_path from every cwd the terminal reaches
NextResolve ==
    \/ \E l \in ResolveLines : Call(l)
    \/ Exec
    \/ \E s \in RawPaths : ResolveCall(s)
    \/ Return

SpecResolve == Init /\ [][NextResolve]_vars

\* The text of a file of n lines; line i holds the digit i % 10
TextOf(n) == [i \in 1..n |-> Digits[(i % 10) + 1]]

\* The terminal over a root that holds a text file a of up to MaxLines lines
InitFiles ==
    /\ \E n \in 0..MaxLines : fs = Tree0 @@ ((Root \o <<"a">>) :> File(TextOf(n)))
    /\ cwd = Root
    /\ pc = "idle"
    /\ line = <<>>
    /\ out = <<>>
    /\ raised = "none"
    /\ calls = <<>>
    /\ res = NoRes
    /\ plan = <<>>
    /\ dry = FALSE
    /\ idx = 0
    /\ buf = <<>>
    /\ ran = <<>>
    /\ ret = <<>>
    /\ session = "running"
    /\ hist = <<>>
    /\ planner = NoPlanner

\* The values given to -n: 1, 2, 11, 13, 0, -1, and a word that is no integer
CountArgs == { <<"1">>, <<"2">>, <<"1", "1">>, <<"1", "3">>, <<"0">>, <<"-", "1">>, <<"a">> }

\* Lines over the files a and h: cat, head, tail and rm with two and three
\* targets, head and tail with and without -n, with -n last and with -n
\* before a word, and the commands that make and remove a and h
FileLines ==
    {JoinSpace(<<w>> \o t) : w \in {W_cat, W_head, W_tail, W_rm},
                             t \in {<< <<"a">>, <<"h">> >>, << <<"h">>, <<"a">> >>}}
    \cup {JoinSpace(<<w, <<"a">>, <<"h">>, <<"a">> >>) : w \in {W_cat, W_head, W_tail}}
    \cup {JoinSpace(<<w, F_n, n, <<"a">> >>) : w \in {W_head, W_tail}, n \in CountArgs}
    \cup {JoinSpace(<<w, <<"a">> >>) : w \in {W_head, W_tail}}
    \cup {JoinSpace(<<w, <<"a">>, F_n>>) : w \in {W_head, W_tail}}
    \cup {JoinSpace(<<w, <<"a">>, F_n, <<"h">> >>) : w \in {W_head, W_tail}}
    \cup {JoinSpace(<<w, F_n, <<"2">>, <<"h">>, <<"a">> >>) : w \in {W_head, W_tail}}
    \cup {JoinSpace(<<W_mkdir, <<"h">> >>), JoinSpace(<<W_touch, <<"h">> >>),
          JoinSpace(<<W_touch, <<"a">> >>), JoinSpace(<<W_rm, F_r, <<"h">>, <<"a">> >>)}

NextFiles ==
    \/ \E l \in FileLines : Call(l)
    \/ Exec
    \/ Return

SpecFiles == InitFiles /\ [][NextFiles]_vars

\* Instructions: the patterns of the fallback with and without their
\* argument, in upper case and with blanks around, near misses of the
\* patterns, and instructions no pattern meets
Instructions ==
    { T_make_folder \o <<SP, "a">>,
      <<"M", "a", "k", "e", SP, "F", "o", "l", "d", "e", "r", SP, "a">>,
      T_create_folder \o <<SP, "a">>,
      T_make_folder,
      T_delete_file \o <<SP, "a">>,
      <<SP>> \o T_delete_file \o <<SP, "a", SP>>,
      T_delete_file,
      T_show_files, T_list_files, T_list_files \o <<SP, "a">>,
      T_current_dir, T_where_am_i,
      <<"z", "z">>, <<>> }

\* The allow-lists handed to nl_to_commands, the empty one (or None) included
AllowLists == SUBSET {W_mkdir, W_rm, W_ls}

\* The allow-lists the configuration file can hold
ConfigLists == { {}, {W_ls, W_mkdir}, {W_ls, W_pwd, W_mkdir, W_rm} }

\* The entries a reply of the model can list: mkdir a, rm a, ls, a command
\* that no allow-list has, the empty list, and a value that is no list
ReplyEntries ==
    { ListEntry(<<W_mkdir, <<"a">> >>), ListEntry(<<W_rm, <<"a">> >>),
      ListEntry(<<W_ls>>), ListEntry(<< <<"z", "z">>, <<"a">> >>),
      ListEntry(<<>>), OtherEntry }

\* What the call to the model gives: an exception, no text, text that is no
\* JSON object, or a JSON object with its "commands"
Replies ==
    { [kind |-> k, commands |-> <<>>] : k \in {"raise", "empty", "garbage"} }
    \cup { [kind |-> "json", commands |-> c] : c \in SeqsUpTo(ReplyEntries, MaxReply) }

\* A caller has an instruction and an allow-list for nl_to_commands
PlanCall(nl, allowed, cfg) ==
    /\ pc = "idle"
    /\ pc' = "nl_called"
    /\ planner' = [NoPlanner EXCEPT !.nl = nl, !.allowed = allowed, !.cfg = cfg]
    /\ UNCHANGED <<fs, cwd, line, out, raised, calls, res, plan, dry, idx, buf, ran, ret,
                   session, hist>>

\* nl_to_commands(nl, cwd_rel, allowed)
PlanRun(key, reply) ==
    /\ pc = "nl_called"
    /\ \E r \in {nl_to_commands(planner.nl, planner.allowed, planner.cfg, key, reply)} :
         planner' = [planner EXCEPT !.commands = r.commands, !.exc = r.exc]
    /\ pc' = "planned"
    /\ UNCHANGED <<fs, cwd, line, out, raised, calls, res, plan, dry, idx, buf, ran, ret,
                   session, hist>>

\* The caller has the commands; the locals of the call are gone.
PlanReturn ==
    /\ pc = "planned"
    /\ pc' = "idle"
    /\ planner' = NoPlanner
    /\ UNCHANGED <<fs, cwd, line, out, raised, calls, res, plan, dry, idx, buf, ran, ret,
                   session, hist>>

NextPlanner ==
    \/ \E nl \in Instructions, allowed \in AllowLists, cfg \in ConfigLists :
            PlanCall(nl, allowed, cfg)
    \/ \E key \in BOOLEAN, reply \in Replies : PlanRun(key, reply)
    \/ PlanReturn

SpecPlanner == Init /\ [][NextPlanner]_vars

----------------------------------------------------------------------------
(* Properties of _resolve_path, under SpecResolve *)

\* C1: from every cwd the terminal reaches and for every raw path string,
\* relative or absolute, with any number of ".." segments, _resolve_path
\* returns Root or a path below Root, and it never raises.
C1_ResolveConfined ==
    pc = "resolved" => ~res.raised /\ IsUnder(res.path, Root)

\* C1 at work: from a cwd below Root, ../../a leaves Root and comes back as
\* Root/a.
C1_Witness ==
    /\ pc = "resolved"
    /\ res.raw = <<DOT, DOT, SLASH, DOT, DOT, SLASH, "a">>
    /\ Len(res.from) > Len(Root)
    /\ ~IsUnder(Normalize(res.from, PathParts(res.raw)), Root)
    /\ res.path = Root \o <<"a">>
    /\ ~res.raised

\* C10 as stated: for a relative p, resolve(p) is Root or below Root, and it
\* is Root if and only if p is empty.
C10_RootIffEmpty ==
    (pc = "resolved" /\ ~is_absolute(res.raw))
        => /\ IsUnder(res.path, Root)
           /\ (res.path = Root <=> res.raw = <<>>)

\* C10 amended: for a relative p, resolve(p) is Root or below Root, and the
\* empty p resolves to cwd, which is Root only when cwd is Root.
C10_EmptyIsCwd ==
    (pc = "resolved" /\ ~is_absolute(res.raw))
        => /\ IsUnder(res.path, Root)
           /\ (res.raw = <<>> => res.path = res.from)

\* C10 at work: the empty path string from a cwd below Root resolves to that
\* cwd, which is not Root.
C10_Witness ==
    /\ pc = "resolved"
    /\ res.raw = <<>>
    /\ res.from # Root
    /\ res.path = res.from

\* Path(path_str).name: the last component of the string as typed, ".."
\* included; empty when the string has no component
RawName(s) ==
    LET parts == PathParts(s) IN
    IF parts = <<>> THEN <<>> ELSE parts[Len(parts)]

\* the path a raw string stands for before the confinement test
Normalized(c, s) == Normalize(IF is_absolute(s) THEN <<>> ELSE c, PathParts(s))

\* C11 as stated: when the normalized form of the raw path lies outside Root,
\* the result is Root / basename, the basename being the last component of
\* the raw string as typed (the join read as it stands, or resolved).
C11_RawBasename ==
    (pc = "resolved" /\ res.raw # <<>> /\ ~IsUnder(Normalized(res.from, res.raw), Root))
        => res.path \in { IF RawName(res.raw) = <<>> THEN Root
                          ELSE Append(Root, CompName(RawName(res.raw))),
                          Normalize(Root, PathParts(RawName(res.raw))) }

\* C11 amended: when the normalized form of the raw path lies outside Root,
\* the result is Root / name, the name being the last component of the
\* normalized path (none for "/", which gives Root); it is the last
\* component of the raw string whenever that one is a name and not "..".
C11_NormalizedName ==
    (pc = "resolved" /\ res.raw # <<>> /\ ~IsUnder(Normalized(res.from, res.raw), Root))
        => /\ res.path = Root \o PathName(Normalized(res.from, res.raw))
           /\ RawName(res.raw) \notin {<<>>, <<DOT, DOT>>}
                => res.path = Append(Root, CompName(RawName(res.raw)))

\* C11 at work: /a/h/.. is /a, outside Root, and comes back as Root/a,
\* where the last component typed is "..".
C11_Witness ==
    /\ pc = "resolved"
    /\ res.raw = <<SLASH, "a", SLASH, "h", SLASH, DOT, DOT>>
    /\ RawName(res.raw) = <<DOT, DOT>>
    /\ res.path = Root \o <<"a">>

----------------------------------------------------------------------------
(* Properties of the terminal, under Spec *)

\* C2: after any sequence of lines given to execute, cwd is Root or a path
\* below Root.
C2_CwdInRoot == IsUnder(cwd, Root)

\* C2 at work: cd /a, an absolute path outside Root, has moved cwd to Root/a.
C2_Witness ==
    /\ pc = "done"
    /\ line = JoinSpace(<<W_cd, <<SLASH, "a">> >>)
    /\ out = <<>>
    /\ cwd = Root \o <<"a">>

\* The part of a tree that lies outside Root
Outside(f) == [q \in {q \in DOMAIN f : ~IsUnder(q, Root)} |-> f[q]]

\* C3: whatever mkdir, rm, touch, cp and mv are given, the file tree outside
\* Root stays as it was when the terminal was constructed: nothing there is
\* created, deleted, overwritten or moved.
C3_OutsideUnchanged == Outside(fs) = Outside0

\* C3 at work: rm -r /a, confirmed, has removed the directory Root/a, and the
\* directory /a outside Root is still there.
C3_Witness ==
    /\ pc = "done"
    /\ line = JoinSpace(<<W_rm, F_r, <<SLASH, "a">> >>)
    /\ Len(out) = 1
    /\ out[1].k = "prompt"
    /\ ~exists(fs, Root \o <<"a">>)
    /\ is_dir(fs, <<"a">>)

\* C8 as stated: execute returns normally for every line, also for a line
\* of zero tokens; the only thing it ever raises is the termination request
\* of exit and quit.
C8_OnlyExitRaises ==
    pc = "done"
        => /\ raised \in {"none", "SystemExit"}
           /\ raised = "SystemExit"
                => calls # <<>> /\ calls[1].cmd \in {W_exit, W_quit}

\* C9 as stated: cd to a target that is no directory leaves cwd as it was and
\* prints an error; cd without argument sets cwd to Root from any cwd.
C9_CdTargets ==
    [][(pc = "called" /\ pc' = "done" /\ calls' # <<>> /\ calls'[1].cmd = W_cd)
          => LET args == calls'[1].args IN
             IF args = <<>> THEN cwd' = Root
             ELSE ~is_dir(fs, Resolved(cwd, args[1]))
                    => cwd' = cwd /\ \E i \in 1..Len(out') : out'[i].k = "err"]_vars

\* C12 as stated: whenever a command is about to use cwd, cwd exists as a
\* directory in the file tree, also after rm -r or mv of cwd or of one of
\* its ancestors.
C12_CwdExists == pc = "called" => is_dir(fs, cwd)

\* C13: a line that tokenizes and whose first token is no key of the
\* registry, in that exact case, prints the unknown-command error naming
\* the token and nothing else, calls no handler, and leaves cwd and the
\* file tree as they were, whatever arguments follow.
C13_UnknownCommand ==
    [][(pc = "called" /\ pc' = "done" /\ shlex_split(line).ok
          /\ shlex_split(line).parts # <<>>
          /\ Head(shlex_split(line).parts) \notin commands)
        => /\ out' = <<Chunk("err", "unknown command: ", Head(shlex_split(line).parts))>>
           /\ raised' = "none"
           /\ calls' = <<>>
           /\ fs' = fs
           /\ cwd' = cwd]_vars

\* C13 at work: CD, the name of a command in upper case, below Root with a
\* directory to go to: the error names CD and cwd has not moved.
C13_Witness ==
    /\ pc = "done"
    /\ line = <<"C", "D">>
    /\ out = <<Chunk("err", "unknown command: ", <<"C", "D">>)>>
    /\ cwd # Root

----------------------------------------------------------------------------
(* Properties of run_commands, under SpecPlan *)

\* a plan command that asks for termination: exit or quit, with any arguments
IsTermination(cmd) == cmd # <<>> /\ cmd[1] \in {W_exit, W_quit}

\* the echo of plan command cmd: "$ " and its tokens joined by a space
EchoOf(cmd) == Chunk("echo", "$ ", JoinWith(<<SP>>, cmd))

\* C4 as stated: in a live run an exit or quit command writes an "exit" line
\* and is the last command of the plan to be executed and echoed.
C4_ExitHalts ==
    (pc \in {"loop", "returned"} /\ ~dry)
        => \A j \in 1..Len(ran) :
              IsTermination(plan[ran[j]])
                 => /\ j = Len(ran)
                    /\ buf # <<>> /\ buf[Len(buf)].k = "exit"
                    /\ Len(SelectSeq(buf, LAMBDA ch : ch.k = "echo")) = j

\* C5: in a live run a failing command does not stop the plan: when the run
\* returns, every plan command with no termination request before it has
\* been executed exactly once.
C5_AllRun ==
    (pc = "returned" /\ ~dry)
        => \A i \in 1..Len(plan) :
              (\A k \in 1..(i - 1) : ~IsTermination(plan[k]))
                 => Cardinality({j \in 1..Len(ran) : ran[j] = i}) = 1

\* C5 at work: an unknown command and then mkdir a; both were executed and
\* Root/a is there.
C5_Witness ==
    /\ pc = "returned"
    /\ ~dry
    /\ plan = << << <<"z", "z">> >>, <<W_mkdir, <<"a">> >> >>
    /\ ran = <<1, 2>>
    /\ is_dir(fs, Root \o <<"a">>)

\* the buffer from its last echo on
RECURSIVE LastBlock(_)
LastBlock(b) ==
    IF b = <<>> THEN <<>>
    ELSE IF b[Len(b)].k = "echo" THEN <<b[Len(b)]>>
    ELSE LET rest == LastBlock(SubSeq(b, 1, Len(b) - 1)) IN
         IF rest = <<>> THEN <<>> ELSE Append(rest, b[Len(b)])

\* what run_commands writes for the way execute ended
OwnEnding(e) ==
    IF e = "none" THEN <<>>
    ELSE IF e = "SystemExit" THEN <<Chunk("exit", "exit", <<>>)>>
    ELSE <<Chunk("err", e, <<>>)>>

\* C6: in a live run the buffer is one block per executed command, in plan
\* order: the echoes in the buffer are those of the commands executed so far,
\* the buffer begins with an echo, and the block written last is the echo of
\* the command followed by what execute printed for it; the combined output
\* returned is that buffer.
C6_Blocks ==
    (pc \in {"loop", "returned"} /\ ~dry)
        => /\ SelectSeq(buf, LAMBDA ch : ch.k = "echo")
                = [j \in 1..Len(ran) |-> EchoOf(plan[j])]
           /\ buf # <<>> => buf[1].k = "echo"
           /\ ran # <<>>
                => LastBlock(buf) = <<EchoOf(plan[Len(ran)])>> \o out \o OwnEnding(raised)
           /\ pc = "returned" => ret[2] = buf /\ Len(ran) = Len(plan)

\* C6 at work: two commands that each print one error line; the output is
\* echo, error, echo, error.
C6_Witness ==
    /\ pc = "returned"
    /\ ~dry
    /\ plan = << << <<"z", "z">> >>, <<W_mkdir>> >>
    /\ Len(ret[2]) = 4
    /\ ret[2][1] = EchoOf(plan[1]) /\ ret[2][2].k = "err"
    /\ ret[2][3] = EchoOf(plan[2]) /\ ret[2][4].k = "err"

\* the plan description: one line "$ " and the tokens joined by a space per
\* plan command, in plan order
PlanLines(p) == [i \in 1..Len(p) |-> <<"$", SP>> \o JoinWith(<<SP>>, p[i])]

\* C7: a dry run returns at once, with the file tree and cwd as they were
\* and no command executed; it returns the placeholder as combined output
\* and the plan description, which is what a live run of the plan returns
\* as plan description too.
C7_DryRun ==
    /\ [][(pc = "idle" /\ pc' \in {"loop", "returned"} /\ dry')
            => /\ pc' = "returned"
               /\ fs' = fs /\ cwd' = cwd
               /\ ran' = <<>> /\ calls' = <<>> /\ buf' = <<>>
               /\ ret' = <<PlanLines(plan'), <<Chunk("out", "(dry run)", <<>>)>> >>]_vars
    /\ [](pc = "returned" => ret[1] = PlanLines(plan))

\* C7 at work: the dry run of rm -r a, exit has returned, and Root/a is
\* still a directory.
C7_Witness ==
    /\ pc = "returned"
    /\ dry
    /\ plan = << <<W_rm, F_r, <<"a">> >>, <<W_exit>> >>
    /\ is_dir(fs, Root \o <<"a">>)
    /\ ret[1] = << <<"$", SP>> \o W_rm \o <<SP>> \o F_r \o <<SP, "a">>,
                   <<"$", SP>> \o W_exit >>

----------------------------------------------------------------------------
(* Properties of the REPL, under SpecRepl *)

\* a line whose command is exit or quit, with any arguments
IsExitLine(l) ==
    LET sp == shlex_split(l) IN
    sp.ok /\ sp.parts # <<>> /\ Head(sp.parts) \in {W_exit, W_quit}

\* C14: exit and quit, with any arguments, leave execute as the termination
\* signal and print no error line; the REPL stops there with status 0, so an
\* exit line is the last line of the session's history, and every line
\* executed is the last line of that history.
C14_ExitEndsSession ==
    /\ \A i \in 1..(Len(hist) - 1) : ~IsExitLine(hist[i])
    /\ pc \in {"called", "done"} => hist # <<>> /\ hist[Len(hist)] = line
    /\ (pc = "done" /\ IsExitLine(line)) => raised = "SystemExit" /\ out = <<>>
    /\ (pc = "idle" /\ hist # <<>> /\ IsExitLine(hist[Len(hist)])) => session = "exit 0"
    /\ session # "running" => pc = "idle"

\* C14 at work: mkdir a, cd a, quit a; the session has ended with status 0
\* below Root.
C14_Witness ==
    /\ session = "exit 0"
    /\ hist = << JoinSpace(<<W_mkdir, <<"a">> >>), JoinSpace(<<W_cd, <<"a">> >>),
                 JoinSpace(<<W_quit, <<"a">> >>) >>
    /\ cwd = Root \o <<"a">>

\* ---- claims checked under SpecPlan: rm -r and its confirmation ----

\* the question rm -r asks about the directory p
AskedFor(p) == Chunk("prompt", "rm -r [y/N]: ", PathStr(p))

\* the line printed after a declined confirmation: no error prefix
Aborted == Chunk("out", "aborted", <<>>)

\* the positions of what one rm printed where a confirmation was declined
DeclinedAt(o) == {i \in 1..(Len(o) - 1) : o[i].k = "prompt" /\ o[i + 1] = Aborted}

\* the positions of what one rm printed where a confirmation was given
ConfirmedAt(o) ==
    {i \in 1..Len(o) : o[i].k = "prompt" /\ (i = Len(o) \/ o[i + 1] # Aborted)}

\* C15: in a pass of the loop of run_commands over an rm command, a directory
\* whose confirmation was declined (answer other than y, or end of input) is
\* still there with everything below it, unless another path of the same
\* command that holds it was confirmed; the question is followed by the line
\* "aborted" printed without the error prefix; when the first path is a
\* declined directory the rest of the paths are handled as rm -r handles them
\* alone; and the loop goes on to the next command of the plan.
C15_DeclinedKeeps ==
    [][(pc = "loop" /\ ran' # ran /\ plan[idx] # <<>> /\ plan[idx][1] = W_rm)
        => /\ \A i \in DeclinedAt(out') : \A p \in DOMAIN fs :
                (/\ out'[i] = AskedFor(p)
                 /\ \A j \in ConfirmedAt(out') : \A q \in DOMAIN fs :
                        out'[j] = AskedFor(q) => ~IsUnder(p, q))
                    => /\ is_dir(fs', p)
                       /\ \A q \in Subtree(fs, p) : q \in DOMAIN fs' /\ fs'[q] = fs[q]
           /\ \A i \in 1..Len(out') :
                out'[i].k = "prompt"
                    => (i = Len(out') \/ out'[i + 1].k \in {"out", "prompt", "err"})
           /\ \A i \in 1..Len(out') : out'[i].m = "aborted" => out'[i].k = "out"
           /\ LET args == Tail(plan[idx])
                  paths == SelectSeq(args, LAMBDA a : a # F_r)
              IN (/\ Len(out') >= 2
                  /\ paths # <<>>
                  /\ out'[1] = AskedFor(Resolved(cwd, Head(paths)))
                  /\ out'[2] = Aborted)
                    => \E a \in AnswerSeqs :
                         LET r == cmd_rm(fs, cwd, <<F_r>> \o Tail(paths), a)
                         IN /\ out' = <<out'[1], out'[2]>> \o r.out
                            /\ fs' = r.fs
           /\ raised' = "none"
           /\ idx' = idx + 1
           /\ pc' = "loop"]_vars

\* C15 at work: rm -r a h with both directories there, the first declined and
\* the second confirmed: a is kept, h is gone, and the pass is over.
C15_Witness ==
    /\ pc = "loop"
    /\ ran # <<>>
    /\ plan[Len(ran)] = <<W_rm, F_r, <<"a">>, <<"h">> >>
    /\ cwd = Root
    /\ out = <<AskedFor(Root \o <<"a">>), Aborted, AskedFor(Root \o <<"h">>)>>
    /\ is_dir(fs, Root \o <<"a">>)
    /\ ~exists(fs, Root \o <<"h">>)
    /\ idx = Len(ran) + 1

\* ---- claims checked under SpecFiles: commands over several targets ----

RECURSIVE Flatten(_)
\* the sequences of ss, one after the other
Flatten(ss) == IF ss = <<>> THEN <<>> ELSE Head(ss) \o Flatten(Tail(ss))

\* what cat owes for the target t: its text when it is a file, and one error
\* line when it is not
CatReport(f, c, t) ==
    IF is_file(f, Resolved(c, t)) THEN PrintText(f[Resolved(c, t)].c)
    ELSE <<print_err("no such file: ", t)>>

\* what head (tail) owes for the target t: its first (last) n lines when it
\* is a file, and one error line when it is not
HeadReport(f, c, t, n, tail) ==
    IF is_file(f, Resolved(c, t)) THEN read_n_lines(f[Resolved(c, t)].c, n, tail)
    ELSE <<print_err("no such file: ", t)>>

\* rm fails on a target that is missing, or is a directory when -r is absent
RmFails(f, c, t, recursive) ==
    ~exists(f, Resolved(c, t)) \/ (is_dir(f, Resolved(c, t)) /\ ~recursive)

\* the error line rm owes for a failing target
RmError(f, c, t) ==
    IF ~exists(f, Resolved(c, t)) THEN print_err("not found: ", t)
    ELSE print_err("is a directory (use -r): ", t)

\* no target of ts lies at or below another one
Apart(c, ts) ==
    \A i, j \in 1..Len(ts) : i # j => ~IsUnder(Resolved(c, ts[i]), Resolved(c, ts[j]))

\* C16: one call of execute with cat, head, tail or rm over several targets
\* handles every target: what cat, head and tail print is, target after
\* target in argument order, the text owed for a file and one error line for
\* a target that is no file, and the tree is unchanged; the error lines of
\* rm are, in argument order, one for each failing target (missing, or a
\* directory without -r), every target that is a file is removed, and every
\* failing target is left as it was, whether it comes before or after.
C16_EachTarget ==
    [][(pc = "called" /\ pc' = "done" /\ shlex_split(line).ok
            /\ Len(shlex_split(line).parts) >= 2)
        => LET cmd == Head(shlex_split(line).parts)
               args == Tail(shlex_split(line).parts)
               h == HeadArgs(args, DefaultLines, <<>>)
               paths == SelectSeq(args, LAMBDA a : a # F_r)
               rec == \E i \in 1..Len(args) : args[i] = F_r
               failing == SelectSeq(paths, LAMBDA t : RmFails(fs, cwd, t, rec))
           IN /\ cmd = W_cat
                   => /\ out' = Flatten([i \in 1..Len(args) |-> CatReport(fs, cwd, args[i])])
                      /\ fs' = fs /\ raised' = "none"
              /\ (cmd \in {W_head, W_tail} /\ h.ok)
                   => /\ out' = Flatten([i \in 1..Len(h.files) |->
                                    HeadReport(fs, cwd, h.files[i], h.n, cmd = W_tail)])
                      /\ fs' = fs /\ raised' = "none"
              /\ (cmd = W_rm /\ Apart(cwd, paths))
                   => /\ SelectSeq(out', LAMBDA ch : ch.k = "err")
                            = [i \in 1..Len(failing) |-> RmError(fs, cwd, failing[i])]
                      /\ \A i \in 1..Len(paths) :
                            LET p == Resolved(cwd, paths[i]) IN
                            /\ is_file(fs, p) => ~exists(fs', p)
                            /\ RmFails(fs, cwd, paths[i], rec)
                                 => \A q \in Subtree(fs, p) :
                                        q \in DOMAIN fs' /\ fs'[q] = fs[q]
                      /\ raised' = "none"]_vars

\* C16 at work: cat a h a with a a file of text and h missing prints the text,
\* one error line, and the text again.
C16_Witness ==
    /\ pc = "done"
    /\ line = JoinSpace(<<W_cat, <<"a">>, <<"h">>, <<"a">> >>)
    /\ is_file(fs, Root \o <<"a">>)
    /\ fs[Root \o <<"a">>].c # <<>>
    /\ out = << Chunk("out", "text", fs[Root \o <<"a">>].c),
                print_err("no such file: ", <<"h">>),
                Chunk("out", "text", fs[Root \o <<"a">>].c) >>

\* ---- claims checked under Spec: mv and cp ----

\* C17: a call of execute with mv and two arguments whose first resolves to
\* a path that does not exist prints one error line, raises nothing, and
\* leaves the whole tree and cwd as they were: nothing is moved and no
\* parent of the destination is made.
C17_MvMissingSource ==
    [][(pc = "called" /\ pc' = "done" /\ shlex_split(line).ok
            /\ Len(shlex_split(line).parts) >= 3
            /\ Head(shlex_split(line).parts) = W_mv
            /\ ~exists(fs, Resolved(cwd, shlex_split(line).parts[2])))
        => /\ fs' = fs
           /\ cwd' = cwd
           /\ out' = <<print_err("source not found", <<>>)>>
           /\ raised' = "none"]_vars

\* C17 at work: mv h a/h with neither h nor a there: the error line, and
\* still no directory a.
C17_Witness ==
    /\ pc = "done"
    /\ line = JoinSpace(<<W_mv, <<"h">>, <<"a", SLASH, "h">> >>)
    /\ cwd = Root
    /\ ~exists(fs, Root \o <<"h">>)
    /\ ~exists(fs, Root \o <<"a">>)
    /\ out = <<print_err("source not found", <<>>)>>

\* C18: a call of execute with cp or mv whose source exists and whose
\* destination resolves to an existing directory, the two apart (the
\* destination not at or below the source, the source not already the entry
\* of its name in the destination), puts the source at destination/name of
\* the source, as a file when it was a file and as a directory when it was
\* one, keeps the destination a directory, and leaves the source in place
\* for cp and gone from its old path for mv.
C18_Placement ==
    [][(pc = "called" /\ pc' = "done" /\ shlex_split(line).ok
            /\ Len(shlex_split(line).parts) >= 3
            /\ Head(shlex_split(line).parts) \in {W_cp, W_mv})
        => LET cmd == Head(shlex_split(line).parts)
               src == Resolved(cwd, shlex_split(line).parts[2])
               dst == Resolved(cwd, shlex_split(line).parts[3])
               placed == dst \o PathName(src)
           IN (/\ exists(fs, src)
               /\ is_dir(fs, dst)
               /\ ~IsUnder(dst, src)
               /\ placed # src)
                => /\ Kind(fs', placed) = Kind(fs, src)
                   /\ is_dir(fs', dst)
                   /\ cmd = W_cp => exists(fs', src)
                   /\ cmd = W_mv => ~exists(fs', src)]_vars

\* ---- claims checked under Spec: mkdir ----

\* the resolved targets of a mkdir line, and every path above them
MkdirChain(c, args) ==
    UNION {Prefixes(Resolved(c, args[i])) : i \in 1..Len(args)}

\* what the same line gives when it is executed once more
Again(f, c, l) == execute(f, c, l, Env(<<>>, NameOrder))

\* C19 as stated: the same mkdir command executed a second time leaves the
\* tree as the first left it and prints no error.
C19_NoErrorSecondTime ==
    [][(pc = "called" /\ pc' = "done" /\ shlex_split(line).ok
            /\ Len(shlex_split(line).parts) >= 2
            /\ Head(shlex_split(line).parts) = W_mkdir)
        => /\ Again(fs', cwd', line).fs = fs'
           /\ \A i \in 1..Len(Again(fs', cwd', line).out) :
                 Again(fs', cwd', line).out[i].k # "err"]_vars

\* C19, amended: a call of execute with mkdir and arguments keeps every path
\* of the tree as it was; when no target and no path above a target is a
\* file, it prints nothing and afterwards every target and every path above
\* it is a directory; the same command executed a second time leaves the
\* tree as the first left it and prints what the first printed, so no error
\* when the first printed none, and the same error when a file is in the
\* way.  And ls of a directory lists every directory in it by its name
\* followed by "/".
C19_MkdirIdempotent ==
    [][(pc = "called" /\ pc' = "done" /\ shlex_split(line).ok
            /\ Len(shlex_split(line).parts) >= 2)
        => LET cmd == Head(shlex_split(line).parts)
               args == Tail(shlex_split(line).parts)
               target == Resolved(cwd, args[Len(args)])
           IN /\ cmd = W_mkdir
                   => /\ \A q \in DOMAIN fs : q \in DOMAIN fs' /\ fs'[q] = fs[q]
                      /\ (\A q \in MkdirChain(cwd, args) : ~is_file(fs, q))
                            => /\ out' = <<>>
                               /\ \A q \in MkdirChain(cwd, args) : is_dir(fs', q)
                      /\ Again(fs', cwd', line).fs = fs'
                      /\ Again(fs', cwd', line).out = out'
                      /\ raised' = "none"
              /\ (cmd = W_ls /\ args[Len(args)] # F_a /\ is_dir(fs, target))
                   => \A q \in DOMAIN fs :
                        (Len(q) = Len(target) + 1 /\ IsUnder(q, target) /\ is_dir(fs, q))
                            => \E i \in 1..Len(out') :
                                 out'[i] = Chunk("out", "/", PathName(q))]_vars

\* C19 at work: mkdir a/h from the root, with nothing there before, has made
\* a and a/h and printed nothing.
C19_Witness ==
    /\ pc = "done"
    /\ line = JoinSpace(<<W_mkdir, <<"a", SLASH, "h">> >>)
    /\ cwd = Root
    /\ out = <<>>
    /\ DOMAIN fs = DOMAIN Tree0 \cup {Root \o <<"a">>, Root \o <<"a", "h">>}
    /\ is_dir(fs, Root \o <<"a", "h">>)
    /\ cmd_ls(fs, cwd, << <<"a">> >>).out = <<Chunk("out", "/", <<"h">>)>>

\* ---- claims checked under SpecFiles: head and tail ----

Min(a, b) == IF a < b THEN a ELSE b

\* the lines i..j of a text, printed one by one and as they are
Printed(text, i, j) == [k \in 1..(j - i + 1) |-> Chunk("out", "text", <<text[i + k - 1]>>)]

\* -n stands last, or before a word that is no integer
BadCount(args) ==
    \E i \in 1..Len(args) :
        args[i] = F_n /\ (i = Len(args) \/ ~IsInt(args[i + 1]))

\* C20: a call of execute with head or tail: for "-n N file" with N > 0 and
\* a file of L lines, head prints exactly the first min(N, L) lines and tail
\* exactly the last min(N, L) lines, one by one, in order and as they are;
\* for "file" alone N is 10; and when -n stands last or before a word that
\* is no integer, the call prints the one error line "invalid N" and no line
\* of any file.  The tree is unchanged and nothing is raised.
C20_HeadTail ==
    [][(pc = "called" /\ pc' = "done" /\ shlex_split(line).ok
            /\ Len(shlex_split(line).parts) >= 2
            /\ Head(shlex_split(line).parts) \in {W_head, W_tail})
        => LET cmd == Head(shlex_split(line).parts)
               args == Tail(shlex_split(line).parts)
               file == Resolved(cwd, args[Len(args)])
               text == fs[file].c
               L == Len(text)
               shown(N) == IF cmd = W_head THEN Printed(text, 1, Min(N, L))
                           ELSE Printed(text, L - Min(N, L) + 1, L)
           IN /\ (Len(args) = 3 /\ args[1] = F_n /\ IsInt(args[2])
                    /\ IntOf(args[2]) > 0 /\ is_file(fs, file))
                   => out' = shown(IntOf(args[2]))
              /\ (Len(args) = 1 /\ args[1] # F_n /\ is_file(fs, file))
                   => out' = shown(DefaultLines)
              /\ BadCount(args) => out' = <<print_err("invalid N", <<>>)>>
              /\ fs' = fs
              /\ raised' = "none"]_vars

\* C20 at work: tail a on a file of 12 lines prints its lines 3 to 12.
C20_Witness ==
    /\ pc = "done"
    /\ line = JoinSpace(<<W_tail, <<"a">> >>)
    /\ is_file(fs, Root \o <<"a">>)
    /\ fs[Root \o <<"a">>].c = TextOf(12)
    /\ Len(out) = DefaultLines
    /\ out[1].s = <<TextOf(12)[3]>>
    /\ out[DefaultLines].s = <<TextOf(12)[12]>>

\* ---- claims checked under Spec: what a command may change ----

\* C21: cwd changes only in a call of execute whose command is cd and that
\* prints no error, and then to a directory below or at Root; every other
\* step, and every other line (ls, mkdir, rm, touch, cat, echo, cp, mv, head,
\* tail, pwd, help, df, an unknown command, a line that does not parse),
\* whatever it prints or raises, leaves cwd as it was.  Root and the
\* registry are fixed at construction: after any history a line is handed
\* to a handler exactly when its first token is a key of the registry.
C21_OnlyCdMovesCwd ==
    [][(cwd' # cwd
            => /\ pc = "called" /\ pc' = "done"
               /\ shlex_split(line).ok
               /\ shlex_split(line).parts # <<>>
               /\ Head(shlex_split(line).parts) = W_cd
               /\ out' = <<>>
               /\ raised' = "none"
               /\ is_dir(fs, cwd')
               /\ IsUnder(cwd', Root))
       /\ ((pc = "called" /\ pc' = "done" /\ shlex_split(line).ok
                /\ shlex_split(line).parts # <<>>)
            => (calls' # <<>> <=> Head(shlex_split(line).parts) \in commands))]_vars

\* C21 at work: from cwd = Root/a, a line other than cd that fails (cat of
\* something that is no file) has been executed and cwd is still Root/a.
C21_Witness ==
    /\ pc = "done"
    /\ line = JoinSpace(<<W_cat, <<"a">> >>)
    /\ cwd = Root \o <<"a">>
    /\ out = <<print_err("no such file: ", <<"a">>)>>

\* ---- claims checked under SpecPlan: the tokens of a plan command ----

\* C22: in every pass of the loop of a live run_commands over a command
\* whose first token is a key of the registry, the handler of that key is
\* called once, with exactly the other tokens of the command as its
\* argument list.
C22_TokensUnchanged ==
    [][(pc = "loop" /\ ran' # ran /\ plan[idx] # <<>> /\ Head(plan[idx]) \in commands)
        => calls' = <<[cmd |-> Head(plan[idx]), args |-> Tail(plan[idx])]>>]_vars

\* ---- claims checked under SpecPlanner: the allow-list ----

\* C23: whenever nl_to_commands has returned a list, every command in it has
\* a first token that belongs to the allow-list in force: the one handed to
\* the call, or the configured one when that is empty or None.
C23_AllowListed ==
    pc = "planned"
        => \A i \in 1..Len(planner.commands) :
              planner.commands[i][1] \in EffectiveAllowed(planner.allowed, planner.cfg)
====
